---- MODULE Spec2Model ----
(***************************************************************************)
(* The MyNFTs view of MedBadge-frontend: a React component that reads the  *)
(* connected wallet's tokens from a contract, resolves each token's        *)
(* metadata over HTTP, and renders the result.  Two builds of the view are *)
(* in the repository: src/unnamed/part_000 (fetchNFTs memoized with        *)
(* useCallback on the item list, lodash isEqual, a not-connected branch)   *)
(* and src/src/components/MyNFTs.js (plain fetchNFTs, JSON.stringify       *)
(* comparison, no not-connected branch).                                   *)
(***************************************************************************)
EXTENDS Integers, Sequences, FiniteSets, TLC

(***************************************************************************)
(* Bounds of the model.                                                    *)
(***************************************************************************)
MaxCycles == 3
MaxTokens == 2

(***************************************************************************)
(* JavaScript values.  A string is a sequence of chunks: the chunk         *)
(* "ipfs://" is the content-addressed scheme, any other chunk is text that *)
(* does not contain it; the empty string is <<>>.  Every value carries the *)
(* same three fields so that values of different types can be compared.    *)
(***************************************************************************)
Null == "null"
IpfsScheme == "ipfs://"
Gateway == "https://gateway.pinata.cloud/ipfs/"
Placeholder == "https://via.placeholder.com/300"
NoDescription == "No description available."
UntitledNFT == "Untitled NFT"
LoadError == "Failed to load your NFTs. Please try again later."

Undefined == [t |-> "undefined", s |-> <<>>, a |-> <<>>]
JsNull == [t |-> "null", s |-> <<>>, a |-> <<>>]
Str(chunks) == [t |-> "string", s |-> chunks, a |-> <<>>]
Num(digits) == [t |-> "number", s |-> <<digits>>, a |-> <<>>]
Arr(items) == [t |-> "array", s |-> <<>>, a |-> items]

\* JavaScript truthiness: undefined, null, "" and 0 are falsy; every array is truthy.
Truthy(v) ==
    CASE v.t = "undefined" -> FALSE
      [] v.t = "null" -> FALSE
      [] v.t = "string" -> v.s # <<>>
      [] v.t = "number" -> v.s # <<"0">>
      [] OTHER -> TRUE

\* a || b
Or(a, b) == IF Truthy(a) THEN a ELSE b

\* Adjacent text chunks are one piece of text.
RECURSIVE Canon(_)
Canon(chunks) ==
    IF Len(chunks) < 2 THEN chunks
    ELSE IF chunks[1] # IpfsScheme /\ chunks[2] # IpfsScheme
         THEN Canon(<<chunks[1] \o chunks[2]>> \o SubSeq(chunks, 3, Len(chunks)))
         ELSE <<chunks[1]>> \o Canon(Tail(chunks))

\* String.prototype.replace with a string pattern: the first occurrence only.
Replace(chunks, pat, rep) ==
    LET hits == {i \in 1..Len(chunks) : chunks[i] = pat}
    IN  IF hits = {} THEN chunks
        ELSE LET first == CHOOSE i \in hits : \A j \in hits : i <= j
             IN  Canon([i \in 1..Len(chunks) |-> IF i = first THEN rep ELSE chunks[i]])

\* BigNumber.prototype.toString(): the decimal digits.
Digits == <<"0", "1", "2", "3", "4", "5", "6", "7", "8", "9">>

RECURSIVE BigNumberToString(_)
BigNumberToString(n) ==
    IF n < 10 THEN Digits[n + 1]
    ELSE BigNumberToString(n \div 10) \o Digits[(n % 10) + 1]

(***************************************************************************)
(* The metadata gateway's answers.  A response is ok or not, its body      *)
(* parses as JSON or not, and a parsed body is the JSON value null or an   *)
(* object whose four fields are each absent (Undefined) or some value.     *)
(***************************************************************************)
Doc(n, d, i, at) ==
    [isNull |-> FALSE, name |-> n, description |-> d, image |-> i, attributes |-> at]
NullDoc ==
    [isNull |-> TRUE, name |-> Undefined, description |-> Undefined,
     image |-> Undefined, attributes |-> Undefined]
EmptyDoc == Doc(Undefined, Undefined, Undefined, Undefined)

RespNotOk == [ok |-> FALSE, json |-> TRUE, body |-> EmptyDoc]
RespNotJSON == [ok |-> TRUE, json |-> FALSE, body |-> EmptyDoc]
RespNull == [ok |-> TRUE, json |-> TRUE, body |-> NullDoc]
RespEmpty == [ok |-> TRUE, json |-> TRUE, body |-> EmptyDoc]
RespCat ==
    [ok |-> TRUE, json |-> TRUE,
     body |-> Doc(Str(<<"Cat#2">>), Undefined, Str(<<IpfsScheme, "imgb">>), Undefined)]
RespDog ==
    [ok |-> TRUE, json |-> TRUE,
     body |-> Doc(Str(<<"Dog">>), Str(<<"A dog">>), Str(<<"https://img.example/d.png">>),
                  Arr(<<[trait_type |-> "Color", value |-> "Red"]>>))]
RespBlank ==
    [ok |-> TRUE, json |-> TRUE,
     body |-> Doc(Str(<<>>), Str(<<>>), Str(<<>>), JsNull)]
RespBadImage ==
    [ok |-> TRUE, json |-> TRUE,
     body |-> Doc(Str(<<"Cat#2">>), Undefined, Num("5"), Undefined)]

Responses ==
    {RespNotOk, RespNotJSON, RespNull, RespEmpty, RespCat, RespDog, RespBlank, RespBadImage}

TokenIds == {1, 2, 12}
TokenURIs == {<<IpfsScheme, "a">>, <<"https://meta.example/b">>}

\* What contract.getMyNFTs() resolves to: a pair of sequences of one length.
ChainReads(ids, uris, maxLen) ==
    UNION {{[tokenIds |-> T, tokenURIs |-> U] : T \in [1..n -> ids], U \in [1..n -> uris]}
           : n \in 0..maxLen}

\* The chain reads and responses the view's steps draw from.
ViewChainReads ==
    {[tokenIds |-> <<>>, tokenURIs |-> <<>>],
     [tokenIds |-> <<1>>, tokenURIs |-> <<<<IpfsScheme, "a">>>>],
     [tokenIds |-> <<12>>, tokenURIs |-> <<<<IpfsScheme, "b">>>>]}
ViewResponseSeqs == {<<>>, <<RespNotOk>>, <<RespCat>>}

(***************************************************************************)
(* fetchNFTs, the per-token callback.  A throw anywhere in its try block   *)
(* is caught and the callback returns null (<<>>); a record is <<r>>.      *)
(***************************************************************************)
MetadataUrl(uri) == Replace(uri, IpfsScheme, Gateway)

\* The callback with the card's title fallback as the default name (not the code's).
FormatNFTUntitled(tokenIds, index, response) ==
    IF ~response.ok \/ ~response.json \/ index \notin DOMAIN tokenIds THEN <<>>
    ELSE IF response.body.isNull THEN <<>>
    ELSE IF Truthy(response.body.image) /\ response.body.image.t # "string" THEN <<>>
    ELSE <<[id |-> BigNumberToString(tokenIds[index]),
            name |-> Or(response.body.name, Str(<<UntitledNFT>>)),
            description |-> Or(response.body.description, Str(<<NoDescription>>)),
            image |-> IF Truthy(response.body.image)
                      THEN Str(Replace(response.body.image.s, IpfsScheme, Gateway))
                      ELSE Str(<<Placeholder>>),
            attributes |-> Or(response.body.attributes, Arr(<<>>))]>>

FormatNFT(tokenIds, index, response) ==
    IF ~response.ok THEN <<>>                       \* throw new Error("Failed to fetch metadata")
    ELSE IF ~response.json THEN <<>>                \* response.json() rejects
    ELSE IF index \notin DOMAIN tokenIds THEN <<>>  \* undefined.toString()
    ELSE IF response.body.isNull THEN <<>>          \* null.name
    ELSE IF Truthy(response.body.image) /\ response.body.image.t # "string"
         THEN <<>>                                  \* image.replace is not a function
    ELSE <<[id |-> BigNumberToString(tokenIds[index]),
            name |-> Or(response.body.name,
                        Str(<<"NFT #" \o BigNumberToString(tokenIds[index])>>)),
            description |-> Or(response.body.description, Str(<<NoDescription>>)),
            image |-> IF Truthy(response.body.image)
                      THEN Str(Replace(response.body.image.s, IpfsScheme, Gateway))
                      ELSE Str(<<Placeholder>>),
            attributes |-> Or(response.body.attributes, Arr(<<>>))]>>

\* Promise.all over tokenURIs.map: one entry per URI, in position order.
FormattedNFTs(tokenIds, responses) ==
    [i \in 1..Len(responses) |-> FormatNFT(tokenIds, i, responses[i])]

\* A filter that stops at the first null (not the code's): a failure would remove
\* the records after it.
RECURSIVE UntilFirstNull(_)
UntilFirstNull(formatted) ==
    IF formatted = <<>> \/ Head(formatted) = <<>> THEN <<>>
    ELSE <<Head(formatted)[1]>> \o UntilFirstNull(Tail(formatted))

\* formattedNFTs.filter((nft) => nft !== null)
RECURSIVE ValidNFTs(_)
ValidNFTs(formatted) ==
    IF formatted = <<>> THEN <<>>
    ELSE (IF Head(formatted) = <<>> THEN <<>> ELSE <<Head(formatted)[1]>>)
         \o ValidNFTs(Tail(formatted))

(***************************************************************************)
(* The two comparisons of the fetched list with the captured one.          *)
(***************************************************************************)
\* lodash isEqual: deep, order-sensitive equality of arrays of plain objects.
IsEqual(a, b) == a = b

RECURSIVE JoinChunks(_)
JoinChunks(chunks) ==
    IF chunks = <<>> THEN "" ELSE Head(chunks) \o JoinChunks(Tail(chunks))

Quote(s) == "\"" \o s \o "\""

RECURSIVE JoinWithCommas(_)
JoinWithCommas(parts) ==
    IF parts = <<>> THEN ""
    ELSE IF Len(parts) = 1 THEN parts[1]
    ELSE parts[1] \o "," \o JoinWithCommas(Tail(parts))

StringifyAttr(at) ==
    "{\"trait_type\":" \o Quote(at.trait_type) \o ",\"value\":" \o Quote(at.value) \o "}"

StringifyValue(v) ==
    CASE v.t = "string" -> Quote(JoinChunks(v.s))
      [] v.t = "number" -> JoinChunks(v.s)
      [] v.t = "array" ->
           "[" \o JoinWithCommas([i \in 1..Len(v.a) |-> StringifyAttr(v.a[i])]) \o "]"
      [] OTHER -> "null"

StringifyNFT(nft) ==
    "{\"id\":" \o Quote(nft.id)
    \o ",\"name\":" \o StringifyValue(nft.name)
    \o ",\"description\":" \o StringifyValue(nft.description)
    \o ",\"image\":" \o StringifyValue(nft.image)
    \o ",\"attributes\":" \o StringifyValue(nft.attributes) \o "}"

\* JSON.stringify of an array of NFT records.
Stringify(list) ==
    "[" \o JoinWithCommas([i \in 1..Len(list) |-> StringifyNFT(list[i])]) \o "]"

(***************************************************************************)
(* NFTCard: what a card shows for a record.                                *)
(***************************************************************************)
CardTitle(nft) == Or(nft.name, Str(<<UntitledNFT>>))
CardDescription(nft) == Or(nft.description, Str(<<NoDescription>>))
CardImage(nft) == Or(nft.image, Str(<<Placeholder>>))

(***************************************************************************)
(* The state of the view.                                                  *)
(*   variant        which build runs: "part_000" or "MyNFTs.js"            *)
(*   walletAddress  useWalletContext().walletAddress; "" and Null are the  *)
(*                  absent values                                          *)
(*   nfts           useState([]): val is the array, ref its identity (the  *)
(*                  id of the fetch cycle whose setNFTs made it, 0 for the *)
(*                  initial array)                                         *)
(*   loading, error useState(false), useState(null)                        *)
(*   effectDeps     the dependency array of the effect's last run, <<>>    *)
(*                  before the first                                       *)
(*   cycles         the calls of fetchNFTs that have not returned, by id   *)
(*   nextId         the id of the next call of fetchNFTs                   *)
(* and, recorded for the properties only:                                  *)
(*   startedFor     the wallet address each call was started under         *)
(*   latest         the outcome of the most recently started call          *)
(*   lastValid      <<validNFTs>> of the call that last completed its      *)
(*                  batch, <<>> before any has                             *)
(*   newestPublisher the largest id of a call that has called setNFTs      *)
(***************************************************************************)
VARIABLES variant, walletAddress, nfts, loading, error, effectDeps, cycles, nextId,
          startedFor, latest, lastValid, newestPublisher

vars == <<variant, walletAddress, nfts, loading, error, effectDeps, cycles, nextId,
          startedFor, latest, lastValid, newestPublisher>>

Wallets == {"0xA", "0xB"}
WalletValues == Wallets \cup {""}

\* !walletAddress
Falsy(w) == w \in {"", Null}

NoLatest ==
    [id |-> 0, status |-> "none", tokenIds |-> <<>>, responses |-> <<>>,
     formatted |-> <<>>, valid |-> <<>>]

\* A dependency array without fetchNFTs (not that of part_000).
DepsWalletOnly == <<walletAddress>>

\* The effect's dependency array.  useCallback(..., [nfts]) gives fetchNFTs a new
\* identity exactly when the nfts array is a new one, so nfts.ref stands for fetchNFTs.
Deps ==
    IF variant = "part_000" THEN <<walletAddress, nfts.ref>> ELSE <<walletAddress>>

\* React runs an effect after a render whose dependency array differs from the
\* last one, and before it processes any later update.
EffectPending == effectDeps # Deps

\* The comparison that guards setNFTs.
SameList(a, b) ==
    IF variant = "part_000" THEN IsEqual(a, b) ELSE Stringify(a) = Stringify(b)

InFlight == DOMAIN cycles

Remove(c) == [d \in InFlight \ {c} |-> cycles[d]]

InitView(v) ==
    /\ variant = v
    /\ walletAddress \in WalletValues
    /\ nfts = [ref |-> 0, val |-> <<>>]
    /\ loading = FALSE
    /\ error = Null
    /\ effectDeps = <<>>
    /\ cycles = <<>>
    /\ nextId = 1
    /\ startedFor = <<>>
    /\ latest = NoLatest
    /\ lastValid = <<>>
    /\ newestPublisher = 0

Init == InitView("part_000")

InitPlain == InitView("MyNFTs.js")

\* The wallet context supplies another address, or none.
WalletChange(w) ==
    /\ ~EffectPending
    /\ w \in WalletValues \ {walletAddress}
    /\ walletAddress' = w
    /\ UNCHANGED <<variant, nfts, loading, error, effectDeps, cycles, nextId,
                   startedFor, latest, lastValid, newestPublisher>>

\* useEffect with no wallet address: if (!walletAddress) return;
UseEffectReturn ==
    /\ EffectPending
    /\ Falsy(walletAddress)
    /\ effectDeps' = Deps
    /\ UNCHANGED <<variant, walletAddress, nfts, loading, error, cycles, nextId,
                   startedFor, latest, lastValid, newestPublisher>>

\* useEffect with a wallet address: fetchNFTs() runs to its first await.  The
\* call keeps the nfts of the render it was made in.
UseEffectFetch ==
    /\ EffectPending
    /\ ~Falsy(walletAddress)
    /\ nextId <= MaxCycles
    /\ effectDeps' = Deps
    /\ loading' = TRUE
    /\ error' = Null
    /\ cycles' = cycles @@ (nextId :> [pc |-> "chain", captured |-> nfts.val,
                                       tokenIds |-> <<>>, urls |-> <<>>, settled |-> <<>>])
    /\ nextId' = nextId + 1
    /\ startedFor' = Append(startedFor, walletAddress)
    /\ latest' = [NoLatest EXCEPT !.id = nextId, !.status = "inflight"]
    /\ UNCHANGED <<variant, walletAddress, nfts, lastValid, newestPublisher>>

\* contract.getMyNFTs() resolves: every metadata URL is fetched.
ChainReadOk(c, read) ==
    /\ c \in InFlight
    /\ cycles[c].pc = "chain"
    /\ cycles' = [cycles EXCEPT ![c] =
                    [@ EXCEPT !.pc = "batch",
                              !.tokenIds = read.tokenIds,
                              !.urls = [i \in 1..Len(read.tokenURIs) |->
                                          MetadataUrl(read.tokenURIs[i])],
                              !.settled = [i \in 1..Len(read.tokenURIs) |-> <<>>]]]
    /\ UNCHANGED <<variant, walletAddress, nfts, loading, error, effectDeps, nextId,
                   startedFor, latest, lastValid, newestPublisher>>

\* An outer catch that also empties the list (not the code's).
ChainReadFailClearsList(c) ==
    /\ ~EffectPending
    /\ c \in InFlight
    /\ cycles[c].pc = "chain"
    /\ error' = LoadError
    /\ loading' = FALSE
    /\ nfts' = [ref |-> c, val |-> <<>>]
    /\ cycles' = Remove(c)
    /\ latest' = IF latest.id = c THEN [latest EXCEPT !.status = "failed"] ELSE latest
    /\ UNCHANGED <<variant, walletAddress, effectDeps, nextId, startedFor,
                   lastValid, newestPublisher>>

\* contract.getMyNFTs() rejects, or the provider or the result is unusable: the
\* outer catch and finally.
ChainReadFail(c) ==
    /\ ~EffectPending
    /\ c \in InFlight
    /\ cycles[c].pc = "chain"
    /\ error' = LoadError
    /\ loading' = FALSE
    /\ cycles' = Remove(c)
    /\ latest' = IF latest.id = c THEN [latest EXCEPT !.status = "failed"] ELSE latest
    /\ UNCHANGED <<variant, walletAddress, nfts, effectDeps, nextId, startedFor,
                   lastValid, newestPublisher>>

\* A completion that publishes only for the most recently started call (not the
\* code's: the code has no such guard).
PublishUnlessStale(c, responses) ==
    LET formatted == FormattedNFTs(cycles[c].tokenIds, responses)
        valid == ValidNFTs(formatted)
        set == ~SameList(valid, cycles[c].captured) /\ c + 1 = nextId
    IN  /\ nfts' = IF set THEN [ref |-> c, val |-> valid] ELSE nfts
        /\ newestPublisher' = IF set /\ c > newestPublisher THEN c ELSE newestPublisher
        /\ loading' = FALSE
        /\ cycles' = Remove(c)
        /\ lastValid' = <<valid>>
        /\ latest' = IF latest.id = c
                     THEN [latest EXCEPT !.status = "ok", !.tokenIds = cycles[c].tokenIds,
                                         !.responses = responses, !.formatted = formatted,
                                         !.valid = valid]
                     ELSE latest
        /\ UNCHANGED <<variant, walletAddress, error, effectDeps, nextId, startedFor>>

\* Promise.all has resolved with one response per URL: filter, compare with the
\* captured list, setNFTs if they differ, and the finally.
Publish(c, responses) ==
    LET formatted == FormattedNFTs(cycles[c].tokenIds, responses)
        valid == ValidNFTs(formatted)
        set == ~SameList(valid, cycles[c].captured)
    IN  /\ nfts' = IF set THEN [ref |-> c, val |-> valid] ELSE nfts
        /\ newestPublisher' = IF set /\ c > newestPublisher THEN c ELSE newestPublisher
        /\ loading' = FALSE
        /\ cycles' = Remove(c)
        /\ lastValid' = <<valid>>
        /\ latest' = IF latest.id = c
                     THEN [latest EXCEPT !.status = "ok", !.tokenIds = cycles[c].tokenIds,
                                         !.responses = responses, !.formatted = formatted,
                                         !.valid = valid]
                     ELSE latest
        /\ UNCHANGED <<variant, walletAddress, error, effectDeps, nextId, startedFor>>

\* The whole batch of a call settles (the view's steps do not look inside it).
BatchSettled(c, responses) ==
    /\ ~EffectPending
    /\ c \in InFlight
    /\ cycles[c].pc = "batch"
    /\ \A i \in 1..Len(cycles[c].settled) : cycles[c].settled[i] = <<>>
    /\ Len(responses) = Len(cycles[c].urls)
    /\ Publish(c, responses)

\* One fetch of the batch settles, in any order.
FetchSettled(c, i, response) ==
    /\ c \in InFlight
    /\ cycles[c].pc = "batch"
    /\ i \in 1..Len(cycles[c].settled)
    /\ cycles[c].settled[i] = <<>>
    /\ cycles' = [cycles EXCEPT ![c].settled[i] = <<response>>]
    /\ UNCHANGED <<variant, walletAddress, nfts, loading, error, effectDeps, nextId,
                   startedFor, latest, lastValid, newestPublisher>>

\* Promise.all resolves once every fetch of the batch has settled.
BatchResolved(c) ==
    /\ ~EffectPending
    /\ c \in InFlight
    /\ cycles[c].pc = "batch"
    /\ \A i \in 1..Len(cycles[c].settled) : cycles[c].settled[i] # <<>>
    /\ Publish(c, [i \in 1..Len(cycles[c].settled) |-> cycles[c].settled[i][1]])

Cycles == 1..MaxCycles

Next ==
    \/ \E w \in WalletValues : WalletChange(w)
    \/ UseEffectReturn
    \/ UseEffectFetch
    \/ \E c \in Cycles :
          \E read \in ViewChainReads : ChainReadOk(c, read)
    \/ \E c \in Cycles : ChainReadFail(c)
    \/ \E c \in Cycles :
          \E responses \in ViewResponseSeqs : BatchSettled(c, responses)

\* The build of src/unnamed/part_000.
Spec == Init /\ [][Next]_vars

\* The build of src/src/components/MyNFTs.js.
SpecPlain == InitPlain /\ [][Next]_vars

(***************************************************************************)
(* One batch in detail: the chain read has resolved with any pair of       *)
(* sequences, and the fetches settle one by one with any response.         *)
(***************************************************************************)
InitBatch ==
    /\ variant = "part_000"
    /\ walletAddress = "0xA"
    /\ nfts = [ref |-> 0, val |-> <<>>]
    /\ loading = TRUE
    /\ error = Null
    /\ effectDeps = <<"0xA", 0>>
    /\ \E read \in ChainReads(TokenIds, TokenURIs, MaxTokens) :
          cycles = (1 :> [pc |-> "batch", captured |-> <<>>,
                          tokenIds |-> read.tokenIds,
                          urls |-> [i \in 1..Len(read.tokenURIs) |->
                                      MetadataUrl(read.tokenURIs[i])],
                          settled |-> [i \in 1..Len(read.tokenURIs) |-> <<>>]])
    /\ nextId = 2
    /\ startedFor = <<"0xA">>
    /\ latest = [NoLatest EXCEPT !.id = 1, !.status = "inflight"]
    /\ lastValid = <<>>
    /\ newestPublisher = 0

NextBatch ==
    \/ \E i \in 1..MaxTokens : \E response \in Responses : FetchSettled(1, i, response)
    \/ BatchResolved(1)

SpecBatch == InitBatch /\ [][NextBatch]_vars

(***************************************************************************)
(* What the component renders.                                             *)
(***************************************************************************)
Rendered ==
    IF variant = "part_000"
    THEN {b \in {"notConnected", "loading", "error", "grid", "empty"} :
            \/ b = "notConnected" /\ Falsy(walletAddress)
            \/ b = "loading" /\ loading /\ ~Falsy(walletAddress)
            \/ b = "error" /\ error # Null
            \/ b = "grid" /\ ~loading /\ ~Falsy(walletAddress) /\ Len(nfts.val) > 0
            \/ b = "empty" /\ ~loading /\ ~Falsy(walletAddress) /\ Len(nfts.val) = 0
                           /\ error = Null}
    ELSE {b \in {"loading", "error", "grid", "empty"} :
            \/ b = "loading" /\ loading
            \/ b = "error" /\ error # Null
            \/ b = "grid" /\ ~loading /\ Len(nfts.val) > 0
            \/ b = "empty" /\ ~loading /\ Len(nfts.val) = 0 /\ error = Null}

(***************************************************************************)
(* Properties.                                                             *)
(***************************************************************************)
\* The members of a set of positions, in increasing order.
RECURSIVE InOrder(_)
InOrder(S) ==
    IF S = {} THEN <<>>
    ELSE LET m == CHOOSE x \in S : \A y \in S : x <= y
         IN  <<m>> \o InOrder(S \ {m})

\* The positions whose network call is not ok or whose body is not JSON.
FailedPositions(responses) ==
    {i \in 1..Len(responses) : ~responses[i].ok \/ ~responses[i].json}

\* The positions whose callback throws: the above, a body that is the JSON value
\* null, and an image that is truthy and not a string.
ThrowingPositions(responses) ==
    FailedPositions(responses)
    \cup {i \in 1..Len(responses) :
            \/ responses[i].body.isNull
            \/ Truthy(responses[i].body.image) /\ responses[i].body.image.t # "string"}

\* The list holds one record per kept position, in position order, each with the
\* id of the token at its position.
OneRecordPerPosition(list, tokenIds, kept) ==
    /\ Len(list) = Len(kept)
    /\ \A k \in 1..Len(kept) : list[k].id = BigNumberToString(tokenIds[kept[k]])

\* C1 as stated: when the chain read has succeeded and the batch has completed,
\* the list the cycle produced holds exactly one record per position whose network
\* call was ok and whose body was JSON, in position order and with the position's
\* token id, and the cycle has set no error.
C1_AsStated ==
    latest.status = "ok" =>
        /\ OneRecordPerPosition(latest.valid, latest.tokenIds,
              InOrder((1..Len(latest.responses)) \ FailedPositions(latest.responses)))
        /\ error = Null

\* C1 as amended: the same, for the positions whose callback does not throw (a
\* network call that is not ok, a body that is not JSON, a body that is the JSON
\* value null, or an image that is truthy and not a string make it throw).
C1_IsolatedFailures ==
    latest.status = "ok" =>
        /\ OneRecordPerPosition(latest.valid, latest.tokenIds,
              InOrder((1..Len(latest.responses)) \ ThrowingPositions(latest.responses)))
        /\ error = Null

\* A completed batch of two or more positions of which some failed and only the
\* last, a token other than the first, has a record.
C1_Witness ==
    /\ latest.status = "ok"
    /\ Len(latest.responses) >= 2
    /\ Len(latest.valid) = 1
    /\ \E i \in 1..Len(latest.responses) : latest.formatted[i] = <<>>
    /\ latest.formatted[Len(latest.responses)] # <<>>
    /\ latest.tokenIds[1] # latest.tokenIds[Len(latest.responses)]

\* The record the batch made for position i of the latest completed cycle.
RecordAt(i) == latest.formatted[i][1]

Missing(v) == v.t = "undefined"

\* The positions whose metadata was fetched and parsed.
ParsedPositions == (1..Len(latest.responses)) \ FailedPositions(latest.responses)

\* C7 as stated: every position whose metadata was fetched and parsed has a
\* record, and a missing name, description, image or attribute list is replaced
\* by "Untitled NFT", "No description available.", the placeholder image and the
\* empty list.
C7_AsStated ==
    latest.status = "ok" =>
        \A i \in ParsedPositions :
            LET body == latest.responses[i].body
            IN  /\ latest.formatted[i] # <<>>
                /\ Missing(body.name) => RecordAt(i).name = Str(<<UntitledNFT>>)
                /\ Missing(body.description) =>
                      RecordAt(i).description = Str(<<NoDescription>>)
                /\ Missing(body.image) => RecordAt(i).image = Str(<<Placeholder>>)
                /\ Missing(body.attributes) => RecordAt(i).attributes = Arr(<<>>)

\* C7 as amended: every position whose metadata was fetched and parsed to a JSON
\* object whose image is absent, falsy or a string has a record; a missing name
\* is replaced by "NFT #" followed by the token id (so a card never shows
\* "Untitled NFT" for it), a missing description by "No description available.",
\* a missing image by the placeholder image, a missing attribute list by the
\* empty list.
C7_Defaults ==
    latest.status = "ok" =>
        \A i \in (1..Len(latest.responses)) \ ThrowingPositions(latest.responses) :
            LET body == latest.responses[i].body
            IN  /\ latest.formatted[i] # <<>>
                /\ Missing(body.name) =>
                      /\ RecordAt(i).name =
                            Str(<<"NFT #" \o BigNumberToString(latest.tokenIds[i])>>)
                      /\ CardTitle(RecordAt(i)) # Str(<<UntitledNFT>>)
                /\ Missing(body.description) =>
                      /\ RecordAt(i).description = Str(<<NoDescription>>)
                      /\ CardDescription(RecordAt(i)) = Str(<<NoDescription>>)
                /\ Missing(body.image) =>
                      /\ RecordAt(i).image = Str(<<Placeholder>>)
                      /\ CardImage(RecordAt(i)) = Str(<<Placeholder>>)
                /\ Missing(body.attributes) => RecordAt(i).attributes = Arr(<<>>)

\* A completed batch with a two-digit token whose metadata is the empty object.
C7_Witness ==
    /\ latest.status = "ok"
    /\ \E i \in 1..Len(latest.responses) :
          /\ latest.responses[i] = RespEmpty
          /\ latest.tokenIds[i] = 12
          /\ latest.formatted[i] # <<>>
          /\ RecordAt(i).name = Str(<<"NFT #12">>)

\* The steps that issue network calls: a chain read is issued when a call of
\* fetchNFTs starts, metadata fetches when a chain read resolves with tokens.
ChainReadIssued == nextId' > nextId

FetchIssued ==
    \E c \in InFlight :
        /\ cycles[c].pc = "chain"
        /\ c \in DOMAIN cycles'
        /\ cycles'[c].pc = "batch"
        /\ cycles'[c].urls # <<>>

\* Call c returns in this step: from its chain read (a whole-cycle failure) or
\* from its batch.
Fails(c) == c \in InFlight /\ c \notin DOMAIN cycles' /\ cycles[c].pc = "chain"

Completes(c) == c \in InFlight /\ c \notin DOMAIN cycles' /\ cycles[c].pc = "batch"

\* C2 as stated: while the wallet address is absent the not-connected branch is
\* rendered and no step issues a chain read or a metadata fetch.
C2_AsStated ==
    [][Falsy(walletAddress) =>
          /\ "notConnected" \in Rendered
          /\ ~ChainReadIssued
          /\ ~FetchIssued]_vars

\* C3 as stated: at most one of the branches not-connected, loading, error, item
\* grid and empty-collection message is rendered.
C3_AsStated == Cardinality(Rendered) <= 1

\* C4 as stated: after the first fetch cycle, a fetch cycle starts only when the
\* wallet address differs from the one the effect last ran with.
C4_AsStated ==
    [][(ChainReadIssued /\ nextId > 1) => effectDeps[1] # walletAddress]_vars

\* C5 as stated: a cycle whose filtered list equals that of the cycle that
\* completed before it, that list being the published one, does not call setNFTs:
\* the nfts array stays the same array.
C5_AsStated ==
    [][\A c \in Cycles :
          (/\ Completes(c)
           /\ lastValid # <<>>
           /\ lastValid' = lastValid
           /\ nfts.val = lastValid[1]) => nfts' = nfts]_vars

C8_NoCancellation ==
    [][/\ ChainReadIssued => \A c \in InFlight : c \in DOMAIN cycles' /\ cycles'[c] = cycles[c]
       /\ \A c \in Cycles :
             (Completes(c) /\ ~SameList(lastValid'[1], cycles[c].captured))
                => nfts' = [ref |-> c, val |-> lastValid'[1]]]_vars

\* The list on display was published by a cycle started under one wallet after a
\* cycle started later, under another wallet, had published.
C8_StaleOverwrite ==
    /\ nfts.ref > 0
    /\ newestPublisher > nfts.ref
    /\ startedFor[nfts.ref] # startedFor[newestPublisher]

\* The view is quiescent: no call of fetchNFTs in flight, no effect run pending.
Quiescent == InFlight = {} /\ ~EffectPending

\* C9: in the useCallback build, when the wallet is connected, the view is
\* quiescent and the most recently started cycle succeeded, the list on display
\* is that cycle's filtered list.
C9_LatestOnDisplay ==
    (/\ variant = "part_000"
     /\ ~Falsy(walletAddress)
     /\ Quiescent
     /\ latest.status = "ok") => nfts.val = latest.valid

\* Quiescent with items on display that an earlier cycle published: the most
\* recently started cycle fetched the same list and left it.
C9_Witness ==
    /\ variant = "part_000"
    /\ ~Falsy(walletAddress)
    /\ Quiescent
    /\ latest.status = "ok"
    /\ Len(nfts.val) > 0
    /\ nfts.ref < latest.id
    /\ newestPublisher > nfts.ref

\* C10 as stated: loading is true whenever a fetch cycle is in flight, so neither
\* the item grid nor the empty-collection message is rendered then, and false
\* once every started cycle has completed.
C10_AsStated ==
    /\ InFlight # {} => loading /\ Rendered \cap {"grid", "empty"} = {}
    /\ InFlight = {} => ~loading

====
